---- MODULE Spec2Model ----
(***************************************************************************)
(* A model of the NBA first-basket scraper: the idempotent store (the      *)
(* sqlite table "games"), the per-game pipeline with its source fallback,  *)
(* the request pacer, the one-time robots.txt check and the drivers that   *)
(* call scrape_season_data (main.py and ScheduleManager).                  *)
(***************************************************************************)
EXTENDS Integers, Sequences, FiniteSets, TLC

\* Python's None / SQL NULL, and a dict key that is not there.
None == "None"
Missing == "<missing>"

--------------------------------------------------------------------------
\* Bounds of the model.

\* Direct upserts per game_id in StoreSpec.
MaxUpserts == 2
\* Distinct payloads per game_id in StoreSpec.
MaxPayloads == 3
\* The clock stops the model here.
MaxTime == 5
\* Periods passed to _calculate_elapsed_seconds on its own: 0..MaxPeriod.
MaxPeriod == 6
\* time.sleep may return this much late.
MaxOversleep == 0

GameIds == {"G1", "G2"}
TeamCodes == {"ATL", "BOS"}

--------------------------------------------------------------------------
VARIABLES
    store,                  \* rows of table games (data/first_baskets.db)
    files,                  \* data/games_<season>.json and data/players_<season>.json, by path
    robots_checked,         \* NBAScraper._robots_checked
    last_request_timestamp, \* NBAScraper._last_request_timestamp
    now,                    \* time.time(), in seconds
    installed,              \* which of the optional libraries imported
    driver,                 \* who called scrape_season_data: main.py or the scheduler
    running,                \* ScheduleManager.running
    pc,                     \* position of the scraping flow
    season_idx,             \* index into seasons of "for season_start in seasons"
    schedule_games,         \* schedule_games of the season being processed
    game_idx,               \* index of "for game in schedule_games"
    written,                \* history: per game_id, the records upserted, in order
    attempt,                \* history: what the latest step did for a game
    cycle_events,           \* history: kinds of effect of the current scrape cycle
    policy,                 \* history: has robots.txt been seen to disallow a prefix
    unresolved,             \* history: game_ids a step found no event for
    prediction_pc           \* position of ScheduleManager.prediction_task

vars == <<store, files, robots_checked, last_request_timestamp, now, installed,
          driver, running, pc, season_idx, schedule_games, game_idx,
          written, attempt, cycle_events, policy, unresolved, prediction_pc>>

--------------------------------------------------------------------------
\* The idempotent store.

\* A lookup that compares the wrong column.
GameLookupBySeason(db, game_id) ==
    \E row \in db : row.season = game_id

\* A pre-check that also passes over a game no source had an event for.
GameStoredOrGivenUp(db, game_id) ==
    \/ \E row \in db : row.game_id = game_id
    \/ game_id \in unresolved

\* A pre-check that finds no game stored.
GameNeverProcessed(db, game_id) == FALSE

\* SELECT game_id FROM games WHERE game_id = ? ... row is not None
GameAlreadyProcessed(db, game_id) ==
    \E row \in db : row.game_id = game_id

\* A plain INSERT without the ON CONFLICT clause and without the key.
InsertOnly(db, record) ==
    db \cup {record}

\* An upsert whose DO UPDATE list forgets two columns.
UpsertKeepingProvenance(db, record) ==
    IF \E row \in db : row.game_id = record.game_id
    THEN { IF row.game_id = record.game_id
           THEN [record EXCEPT !.source_url = row.source_url,
                               !.last_updated = row.last_updated]
           ELSE row : row \in db }
    ELSE db \cup {record}

\* An UPDATE ... WHERE game_id = ? in place of the INSERT: a new game_id adds nothing.
UpdateOnly(db, record) ==
    { IF row.game_id = record.game_id THEN record ELSE row : row \in db }

\* INSERT INTO games (...) VALUES (...) ON CONFLICT(game_id) DO UPDATE SET
\* <each of the eleven other columns> = excluded.<column>
UpsertGameRecord(db, record) ==
    IF \E row \in db : row.game_id = record.game_id
    THEN { IF row.game_id = record.game_id
           THEN [row EXCEPT !.season = record.season,
                            !.game_date = record.game_date,
                            !.home_team = record.home_team,
                            !.away_team = record.away_team,
                            !.first_scoring_team = record.first_scoring_team,
                            !.first_scoring_player = record.first_scoring_player,
                            !.first_scoring_player_id = record.first_scoring_player_id,
                            !.first_scoring_description = record.first_scoring_description,
                            !.first_scoring_elapsed = record.first_scoring_elapsed,
                            !.source_url = record.source_url,
                            !.last_updated = record.last_updated]
           ELSE row : row \in db }
    ELSE db \cup {record}

\* The NOT NULL columns of CREATE TABLE games: a record with a NULL in one of
\* them makes the INSERT raise sqlite3.IntegrityError.  season, game_date and
\* last_updated are always computed strings/times, so only the two team
\* columns can carry a NULL.
ViolatesNotNull(record) ==
    \/ record.home_team = None
    \/ record.away_team = None

--------------------------------------------------------------------------
\* Dates.  A calendar date is [year, month, day]; the schedule carries it as
\* the text startDateEastern.

\* datetime.strptime(text, "%Y%m%d"): the texts it accepts, with their dates;
\* any other text raises ValueError.
DateTable ==
    ( "20240110" :> [year |-> 2024, month |-> 1, day |-> 10] @@
      "20240115" :> [year |-> 2024, month |-> 1, day |-> 15] @@
      "20240120" :> [year |-> 2024, month |-> 1, day |-> 20] )

Parsable(text) == text \in DOMAIN DateTable

\* The order of datetime.date.
DateOrdinal(date) == date.year * 10000 + date.month * 100 + date.day

TwoDigits(n) == IF n < 10 THEN "0" \o ToString(n) ELSE ToString(n)

\* date.isoformat()
IsoFormat(date) ==
    ToString(date.year) \o "-" \o TwoDigits(date.month) \o "-" \o TwoDigits(date.day)

\* datetime.now().date(): the day on which the process runs.
Today == DateTable["20240115"]

\* today.year if today.month >= 10 else today.year - 1
GetCurrentSeasonStartYear ==
    IF Today.month >= 10 THEN Today.year ELSE Today.year - 1

\* f"{season_start}-{(season_start + 1) % 100:02d}"
FormatSeasonLabel(season_start) ==
    ToString(season_start) \o "-" \o TwoDigits((season_start + 1) % 100)

\* seasons = [current_season_start - 1, current_season_start]
Seasons == <<GetCurrentSeasonStartYear - 1, GetCurrentSeasonStartYear>>

--------------------------------------------------------------------------
\* Numbers in JSON payloads, as int(...) reads them.

\* The values int() converts; on None it raises TypeError, on other text ValueError.
IntTable == ( "0" :> 0 @@ "1" :> 1 @@ "2" :> 2 @@ "3" :> 3 @@ "4" :> 4 @@ "5" :> 5 )

\* try: int(d.get(key, 0)) except (TypeError, ValueError): 0
IntOrZero(raw) ==
    IF raw \in DOMAIN IntTable THEN IntTable[raw] ELSE 0

--------------------------------------------------------------------------
\* Schedule entries as the schedule endpoint returns them (league.standard[]).

Game(gameId, statusNum, startDateEastern, hTeam, vTeam) ==
    [gameId |-> gameId, statusNum |-> statusNum,
     startDateEastern |-> startDateEastern, hTeam |-> hTeam, vTeam |-> vTeam]

FinalGame == Game("G1", "3", "20240110", "ATL", "BOS")      \* final, in the past
LiveGame == Game("G2", "2", "20240115", "BOS", "ATL")       \* live, today
FutureGame == Game("G2", "1", "20240120", "BOS", "ATL")     \* scheduled, in the future
HomelessGame == Game("G1", "3", "20240110", None, "BOS")    \* no home triCode
NamelessGame == Game(None, "3", "20240110", "ATL", "BOS")   \* no gameId
ThirdPartyGame == Game("G2", "3", "20240110", "BOS", "CHI")  \* final, without ATL

\* The lists league.standard considered.
Schedules ==
    { <<>>,
      <<FinalGame>>,
      <<LiveGame, FinalGame>>,
      <<FutureGame, FinalGame>>,
      <<HomelessGame>>,
      <<NamelessGame, LiveGame>>,
      <<FinalGame, FinalGame>>,
      <<FinalGame, ThirdPartyGame>> }

\* A loop over the schedule without the filter.
ShouldProcessGameUnfiltered(game) == TRUE

\* _should_process_game
ShouldProcessGame(game) ==
    LET status_num == IntOrZero(game.statusNum)
        start_date == game.startDateEastern
    IN  IF status_num < 2 THEN FALSE
        ELSE IF start_date \in {None, Missing, ""} THEN FALSE
        ELSE IF ~Parsable(start_date) THEN FALSE
        ELSE DateOrdinal(DateTable[start_date]) <= DateOrdinal(Today)

--------------------------------------------------------------------------
\* Play-by-play payloads of the live feed (sources (a) and (b)).

Action(scoreValue, teamTricode, playerName, playerNameI, personId, description, actionType, clock, period, periodType) ==
    [dict |-> TRUE, scoreValue |-> scoreValue, teamTricode |-> teamTricode,
     playerName |-> playerName, playerNameI |-> playerNameI, personId |-> personId,
     description |-> description, actionType |-> actionType,
     clock |-> clock, period |-> period, periodType |-> periodType]

\* An entry of game.actions that is no JSON object.
NonDictAction == [dict |-> FALSE]

\* a missed shot
MissedShot ==
    Action("0", "ATL", "Young", "T. Young", "201", "Young misses layup", "2pt",
           "11:45", "1", "REGULAR")
\* a made basket with every field
MadeBasket ==
    Action("2", "ATL", "Young", "T. Young", "201", "Young layup", "2pt",
           "11:30", "1", "REGULAR")
\* a made basket known only by initial, with no id, no text and an ISO clock
MadeByInitial ==
    Action("3", "BOS", None, "J. Tatum", None, None, Missing,
           "PT11M12.00S", Missing, Missing)
\* a made basket with no team and no player
MadeByNobody ==
    Action("2", Missing, None, None, None, "layup", "2pt", "11:20", "1", "REGULAR")
\* a made basket whose period is null
MadeInNullPeriod ==
    Action("2", "ATL", "Young", "T. Young", "201", "Young layup", "2pt",
           "11:30", None, "REGULAR")

\* a made basket in a period flagged as overtime, with an ISO clock
MadeInFlaggedOvertime ==
    Action("2", "BOS", "Tatum", "J. Tatum", "202", "Tatum layup", "2pt",
           "PT04M30.00S", "1", "OVERTIME")

\* Shapes of a payload: {} | no "game" object | "actions" not a list | a list of actions
Payload(shape, actions) == [shape |-> shape, actions |-> actions]

PbpPayloads ==
    { Payload("empty", <<>>),
      Payload("nogame", <<>>),
      Payload("noactions", <<>>),
      Payload("game", <<MissedShot>>),
      Payload("game", <<MissedShot, MadeBasket>>),
      Payload("game", <<MadeByNobody, MadeByInitial>>),
      Payload("game", <<MissedShot, MadeInNullPeriod>>),
      Payload("game", <<NonDictAction, MadeBasket>>),
      Payload("game", <<MadeInFlaggedOvertime>>) }

Truthy(v) == v \notin {None, Missing, ""}

\* d.get(key, default)
GetOr(v, default) == IF v = Missing THEN default ELSE v

\* a or b
Or(a, b) == IF Truthy(a) THEN a ELSE IF b = Missing THEN None ELSE b

NoEvent == [kind |-> "none"]
Raise(exc) == [kind |-> "raise", exc |-> exc]
Found(event) == [kind |-> "event", event |-> event]

\* The body of "for action in actions" of _extract_first_scoring_event, from
\* the i-th action on.
RECURSIVE ScanActions(_, _)
ScanActions(actions, i) ==
    IF i > Len(actions) THEN NoEvent
    ELSE LET action == actions[i] IN
         IF ~action.dict THEN Raise("AttributeError")     \* action.get on a non-dict
         ELSE IF IntOrZero(action.scoreValue) <= 0 THEN ScanActions(actions, i + 1)
         ELSE LET team == GetOr(action.teamTricode, None)
                  player == Or(GetOr(action.playerName, None), action.playerNameI)
              IN  IF ~Truthy(team) \/ ~Truthy(player) THEN ScanActions(actions, i + 1)
                  ELSE IF GetOr(action.period, "1") \notin DOMAIN IntTable
                       THEN Raise("TypeError")            \* int(None)
                  ELSE Found([team |-> team,
                              player |-> player,
                              player_id |-> IF Truthy(action.personId)
                                            THEN action.personId ELSE None,
                              description |-> Or(GetOr(action.description, None),
                                                 action.actionType),
                              clock |-> GetOr(action.clock, "12:00"),
                              period |-> IntTable[GetOr(action.period, "1")],
                              periodType |-> GetOr(action.periodType, "REGULAR")])

\* _extract_first_scoring_event
ExtractFirstScoringEvent(payload) ==
    IF payload.shape \in {"empty", "nogame", "noactions"} THEN NoEvent
    ELSE ScanActions(payload.actions, 1)

--------------------------------------------------------------------------
\* Elapsed time.

\* clock.split(":") with int(minutes), float(seconds): the texts that parse.
ClockTable ==
    ( "12:00" :> [minutes |-> 12, seconds |-> 0] @@
      "11:45" :> [minutes |-> 11, seconds |-> 45] @@
      "11:30" :> [minutes |-> 11, seconds |-> 30] @@
      "11:20" :> [minutes |-> 11, seconds |-> 20] @@
      "00:00" :> [minutes |-> 0, seconds |-> 0] )

\* str.upper()
Upper(text) ==
    IF text = "overtime" THEN "OVERTIME"
    ELSE IF text = "brk" THEN "BRK"
    ELSE text

Max(a, b) == IF a >= b THEN a ELSE b

\* The offset of the earlier periods counted in lengths of the period at hand.
CalculateElapsedSecondsShortStride(clock, period, period_type) ==
    LET parsed == IF clock \in DOMAIN ClockTable THEN ClockTable[clock]
                  ELSE [minutes |-> 12, seconds |-> 0]
        period_length == IF period > 4 \/ Upper(period_type) = "OVERTIME"
                         THEN 5 * 60 ELSE 12 * 60
        elapsed_in_period == period_length - (parsed.minutes * 60 + parsed.seconds)
    IN  elapsed_in_period + Max(0, period - 1) * period_length

\* The period length chosen by the period number alone.
CalculateElapsedSecondsIgnoringFlag(clock, period, period_type) ==
    LET parsed == IF clock \in DOMAIN ClockTable THEN ClockTable[clock]
                  ELSE [minutes |-> 12, seconds |-> 0]
        period_length == IF period > 4 THEN 5 * 60 ELSE 12 * 60
        elapsed_in_period == period_length - (parsed.minutes * 60 + parsed.seconds)
    IN  elapsed_in_period + Max(0, period - 1) * 12 * 60

\* _calculate_elapsed_seconds, in whole seconds
CalculateElapsedSeconds(clock, period, period_type) ==
    LET parsed == IF clock \in DOMAIN ClockTable THEN ClockTable[clock]
                  ELSE [minutes |-> 12, seconds |-> 0]
        period_length == IF period > 4 \/ Upper(period_type) = "OVERTIME"
                         THEN 5 * 60 ELSE 12 * 60
        elapsed_in_period == period_length - (parsed.minutes * 60 + parsed.seconds)
    IN  elapsed_in_period + Max(0, period - 1) * 12 * 60

\* PBP_URL.format(game_id=game_id)
PbpUrl(game_id) ==
    "https://cdn.nba.com/static/json/liveData/playbyplay/playbyplay_" \o game_id \o ".json"

\* _build_game_record; utcnow is datetime.now(timezone.utc)
BuildGameRecord(game, season_label, first_event, source_url, utcnow) ==
    [game_id |-> game.gameId,
     season |-> season_label,
     game_date |-> IF Parsable(game.startDateEastern)
                   THEN IsoFormat(DateTable[game.startDateEastern])
                   ELSE IsoFormat(Today),
     home_team |-> game.hTeam,
     away_team |-> game.vTeam,
     first_scoring_team |-> first_event.team,
     first_scoring_player |-> first_event.player,
     first_scoring_player_id |-> first_event.player_id,
     first_scoring_description |-> first_event.description,
     first_scoring_elapsed |-> CalculateElapsedSeconds(first_event.clock,
                                  first_event.period, first_event.periodType),
     source_url |-> source_url,
     last_updated |-> utcnow]

--------------------------------------------------------------------------
\* The HTML play-by-play page of basketball-reference (source (c)).

TEAM_TO_BREF ==
    ( "ATL" :> "ATL" @@ "BOS" :> "BOS" @@ "BKN" :> "BRK" @@ "BRK" :> "BRK" @@
      "CHA" :> "CHO" @@ "CHO" :> "CHO" @@ "CHI" :> "CHI" @@ "CLE" :> "CLE" @@
      "DAL" :> "DAL" @@ "DEN" :> "DEN" @@ "DET" :> "DET" @@ "GSW" :> "GSW" @@
      "HOU" :> "HOU" @@ "IND" :> "IND" @@ "LAC" :> "LAC" @@ "LAL" :> "LAL" @@
      "MEM" :> "MEM" @@ "MIA" :> "MIA" @@ "MIL" :> "MIL" @@ "MIN" :> "MIN" @@
      "NOP" :> "NOP" @@ "NOH" :> "NOP" @@ "NYK" :> "NYK" @@ "OKC" :> "OKC" @@
      "ORL" :> "ORL" @@ "PHI" :> "PHI" @@ "PHX" :> "PHO" @@ "PHO" :> "PHO" @@
      "POR" :> "POR" @@ "SAC" :> "SAC" @@ "SAS" :> "SAS" @@ "TOR" :> "TOR" @@
      "UTA" :> "UTA" @@ "WAS" :> "WAS" )

\* TEAM_TO_BREF.items(), in the order of the dict literal.
TeamToBrefItems ==
    << <<"ATL", "ATL">>, <<"BOS", "BOS">>, <<"BKN", "BRK">>, <<"BRK", "BRK">>,
       <<"CHA", "CHO">>, <<"CHO", "CHO">>, <<"CHI", "CHI">>, <<"CLE", "CLE">>,
       <<"DAL", "DAL">>, <<"DEN", "DEN">>, <<"DET", "DET">>, <<"GSW", "GSW">>,
       <<"HOU", "HOU">>, <<"IND", "IND">>, <<"LAC", "LAC">>, <<"LAL", "LAL">>,
       <<"MEM", "MEM">>, <<"MIA", "MIA">>, <<"MIL", "MIL">>, <<"MIN", "MIN">>,
       <<"NOP", "NOP">>, <<"NOH", "NOP">>, <<"NYK", "NYK">>, <<"OKC", "OKC">>,
       <<"ORL", "ORL">>, <<"PHI", "PHI">>, <<"PHX", "PHO">>, <<"PHO", "PHO">>,
       <<"POR", "POR">>, <<"SAC", "SAC">>, <<"SAS", "SAS">>, <<"TOR", "TOR">>,
       <<"UTA", "UTA">>, <<"WAS", "WAS">> >>

\* A reverse map that keeps the first key of each value.
ReverseMapGetFirstKey(code) ==
    LET keys == { i \in 1..Len(TeamToBrefItems) : TeamToBrefItems[i][2] = code }
    IN  IF keys = {} THEN code
        ELSE TeamToBrefItems[CHOOSE i \in keys : \A j \in keys : i <= j][1]

\* reverse_map = {v: k for k, v in self.TEAM_TO_BREF.items()}: a later key
\* of the same value replaces an earlier one; reverse_map.get(code, code)
ReverseMapGet(code) ==
    LET keys == { i \in 1..Len(TeamToBrefItems) : TeamToBrefItems[i][2] = code }
    IN  IF keys = {} THEN code
        ELSE TeamToBrefItems[CHOOSE i \in keys : \A j \in keys : i >= j][1]

\* The href of a team link of basketball-reference.
BrefTeamHref(code) == "/teams/" \o code \o "/2024.html"

\* The codes that occur in team links: the values of the table, one in lower
\* case and one the table does not know.
BrefCodes ==
    { TeamToBrefItems[i][2] : i \in 1..Len(TeamToBrefItems) } \cup {"brk", "SEA"}

\* href.strip("/").split("/")
HrefParts(href) ==
    IF href = "/teams/" THEN <<"teams">>
    ELSE IF \E c \in BrefCodes : href = BrefTeamHref(c)
         THEN <<"teams", CHOOSE c \in BrefCodes : href = BrefTeamHref(c), "2024.html">>
    ELSE <<href>>

\* _extract_bref_team_code
ExtractBrefTeamCode(href) ==
    IF ~Truthy(href) THEN None
    ELSE LET parts == HrefParts(href) IN
         IF Len(parts) < 2 THEN None
         ELSE ReverseMapGet(Upper(parts[2]))

\* _build_bref_game_url: None when the date or the home code does not resolve
BuildBrefGameUrl(game) ==
    IF ~Truthy(game.startDateEastern) \/ ~Truthy(game.hTeam) THEN None
    ELSE IF ~Parsable(game.startDateEastern) THEN None
    ELSE IF game.hTeam \notin DOMAIN TEAM_TO_BREF THEN None
    ELSE "https://www.basketball-reference.com/boxscores/pbp/"
             \o game.startDateEastern \o TEAM_TO_BREF[game.hTeam] \o ".html"

\* A row of table#pbp: the score cell, the team cell, the description cell,
\* the time cell and the row header ("" where the cell is absent or empty).
Row(score, team, description, time, header) ==
    [score |-> score, team |-> team, description |-> description,
     time |-> time, header |-> header]

JumpBallRow == Row("0-0", "", "Jump ball: Capela vs. Horford", "12:00", "1st Q")
LayupRow == Row("2-0", "ATL", "T. Young makes 2-pt layup", "11:30", "1st Q")
TeamlessRow == Row("0-3", "", "J. Tatum makes 3-pt jump shot", "11:12", "1st Q")
TipInRow == Row("0-2", "BOS", "Tip-in by Horford", "", "")

\* _extract_bref_team_from_row: a three-letter cell text, upper-cased
ExtractBrefTeamFromRow(row) ==
    IF row.team \in {"ATL", "BOS", "BRK"} THEN row.team ELSE None

\* _guess_player_from_description: the text before the first marker
\* (" makes", " misses", " turnover", " assists", " enters"), else the text
GuessPlayerFromDescription(description) ==
    IF description = "" THEN None
    ELSE IF description = "T. Young makes 2-pt layup" THEN "T. Young"
    ELSE IF description = "J. Tatum makes 3-pt jump shot" THEN "J. Tatum"
    ELSE description

\* _parse_bref_period
ParseBrefPeriod(period_text) ==
    IF period_text = "" THEN 0
    ELSE IF period_text = "1st OT" THEN 5
    ELSE IF period_text = "1st Q" THEN 1
    ELSE IF period_text = "2nd Q" THEN 2
    ELSE 0

\* A scan that takes the first scoring row whatever cells it has.
RECURSIVE ScanRowsUnchecked(_, _)
ScanRowsUnchecked(rows, i) ==
    IF i > Len(rows) THEN NoEvent
    ELSE LET row == rows[i]
             player == GuessPlayerFromDescription(row.description)
         IN  IF row.score \in {"", "0-0"} THEN ScanRowsUnchecked(rows, i + 1)
             ELSE Found([team |-> ExtractBrefTeamFromRow(row),
                         player |-> IF Truthy(player) THEN player ELSE row.description,
                         player_id |-> None,
                         description |-> row.description,
                         clock |-> IF Truthy(row.time) THEN row.time ELSE "12:00",
                         period |-> 1,
                         periodType |-> "REGULAR"])

\* The body of "for row in body.find_all('tr')" of _fetch_first_event_from_bref
RECURSIVE ScanRows(_, _)
ScanRows(rows, i) ==
    IF i > Len(rows) THEN NoEvent
    ELSE LET row == rows[i]
             team == ExtractBrefTeamFromRow(row)
             description == row.description
             clock == row.time
             period == ParseBrefPeriod(row.header)
             player == GuessPlayerFromDescription(description)
         IN  IF row.score \in {"", "0-0"} THEN ScanRows(rows, i + 1)
             ELSE IF ~Truthy(team) \/ ~Truthy(description) THEN ScanRows(rows, i + 1)
             ELSE Found([team |-> team,
                         player |-> IF Truthy(player) THEN player ELSE description,
                         player_id |-> None,
                         description |-> description,
                         clock |-> IF Truthy(clock) THEN clock ELSE "12:00",
                         period |-> IF period # 0 THEN period ELSE 1,
                         periodType |-> "REGULAR"])

\* What the GET of the page gives: a failure, or a page with no table#pbp,
\* with a table without tbody, or with rows.
Page(shape, rows) == [status |-> "ok", shape |-> shape, rows |-> rows]

BrefResponses ==
    { [status |-> "fail"],
      Page("notable", <<>>),
      Page("nobody", <<>>),
      Page("table", <<JumpBallRow>>),
      Page("table", <<JumpBallRow, LayupRow>>),
      Page("table", <<TeamlessRow>>),
      Page("table", <<TeamlessRow, TipInRow>>) }

--------------------------------------------------------------------------
\* The request pacer.

\* self.min_request_interval = 1.0
min_request_interval == 1

\* A pacer that never sleeps.
RespectRateLimitNoSleep(t, last, over) == t

\* _respect_rate_limit called at time t: the time at which it returns, which
\* it stores as _last_request_timestamp; over is how late time.sleep returns.
RespectRateLimit(t, last, over) ==
    LET elapsed == t - last
    IN  IF elapsed < min_request_interval
        THEN t + (min_request_interval - elapsed) + over
        ELSE t

\* _fetch_json up to session.get: the pacing step, then the request goes out.
Paced(t) ==
    /\ t <= MaxTime
    /\ now' = t
    /\ last_request_timestamp' = t

\* The times at which the pacing step may return.
PacedTimes ==
    { RespectRateLimit(now, last_request_timestamp, over) : over \in 0..MaxOversleep }

--------------------------------------------------------------------------
\* robots.txt

\* for path in ("/static/json", "/data/10s")
RobotsPaths == {"/static/json", "/data/10s"}

\* The Disallow: lines of the robots.txt files considered.
RobotsFiles ==
    { {}, {"/admin"}, {"/static/json/"}, {"/admin", "/data/10s/prod"}, {"/"} }

\* section.startswith(path), over the sections and paths above
StartsWith(section, path) ==
    <<section, path>> \in { <<"/static/json/", "/static/json">>,
                            <<"/data/10s/prod", "/data/10s">> }

\* A check that compares for equality instead of by prefix.
RobotsBlockedIfEqual(disallowed_sections) ==
    \E path \in RobotsPaths : path \in disallowed_sections

\* any(section.startswith(path) for section in disallowed_sections), for some path
RobotsBlocked(disallowed_sections) ==
    \E path \in RobotsPaths :
        \E section \in disallowed_sections : StartsWith(section, path)

RobotsResponses ==
    { [status |-> "fail"] } \cup { [status |-> "ok", disallow |-> f] : f \in RobotsFiles }

--------------------------------------------------------------------------
\* Initial state: NBAScraper() constructed, main.py about to call
\* scrape_season_data (main.py line 29).

\* The data directory before the first export: no file.
NoFiles == [path \in {} |-> <<>>]

\* What a step did: the requests it sent (calls), what each gave (results),
\* the source whose event was kept (yielded), how the step ended (outcome),
\* how often _respect_rate_limit ran (paced) and how long it slept (slept).
Did(game_id, calls, results, yielded, outcome, paced, slept) ==
    [game_id |-> game_id, calls |-> calls, results |-> results, yielded |-> yielded,
     outcome |-> outcome, paced |-> paced, slept |-> slept]

NoAttempt == Did(None, <<>>, <<>>, None, "idle", 0, 0)

SeasonLabels == { FormatSeasonLabel(Seasons[i]) : i \in 1..Len(Seasons) }

Init ==
    /\ store = {}
    /\ files = NoFiles
    /\ robots_checked = FALSE
    /\ last_request_timestamp = 0
    /\ now = min_request_interval
    /\ installed \in SUBSET {"nba_api", "bs4"}
    /\ driver = "main"
    /\ running = FALSE
    /\ pc = "check_robots"
    /\ season_idx = 1
    /\ schedule_games = <<>>
    /\ game_idx = 1
    /\ written = [g \in GameIds |-> <<>>]
    /\ attempt = NoAttempt
    /\ cycle_events = {}
    /\ policy = "unread"
    /\ unresolved = {}
    /\ prediction_pc = "none"

--------------------------------------------------------------------------
\* _check_robots_once

\* What a robots.txt that was read says about the configured prefixes.
Verdict(resp) ==
    IF /\ resp.status = "ok"
       /\ resp.disallow \cap {"/static/json", "/static/json/", "/data/10s", "/data/10s/prod"} # {}
    THEN "disallowed" ELSE "clear"

\* A check without the early return on _robots_checked: every cycle reads
\* robots.txt again.
CheckRobotsEveryCycle ==
    /\ pc = "check_robots"
    /\ UNCHANGED <<store, files, last_request_timestamp, now, installed, driver,
                   running, schedule_games, game_idx, written, unresolved, prediction_pc>>
    /\ \E resp \in RobotsResponses :
          /\ attempt' = Did(None, <<"robots">>, <<resp.status>>, None, "robots", 0, 0)
          /\ cycle_events' = cycle_events \cup {"robots"}
          /\ policy' = IF policy = "disallowed" THEN policy ELSE Verdict(resp)
          /\ IF resp.status = "ok" /\ RobotsBlocked(resp.disallow)
             THEN /\ pc' = "raised"
                  /\ UNCHANGED <<robots_checked, season_idx>>
             ELSE /\ robots_checked' = TRUE
                  /\ pc' = "fetch_schedule"
                  /\ season_idx' = 1

\* A check that lets the RequestException of the robots.txt request leave
\* scrape_season_data instead of logging a warning.
CheckRobotsFailClosed ==
    /\ pc = "check_robots"
    /\ UNCHANGED <<store, files, last_request_timestamp, now, installed, driver,
                   running, schedule_games, game_idx, written, unresolved, prediction_pc>>
    /\ IF robots_checked
       THEN /\ pc' = "fetch_schedule"
            /\ season_idx' = 1
            /\ attempt' = NoAttempt
            /\ UNCHANGED <<robots_checked, cycle_events, policy>>
       ELSE \E resp \in RobotsResponses :
            /\ attempt' = Did(None, <<"robots">>, <<resp.status>>, None, "robots", 0, 0)
            /\ cycle_events' = cycle_events \cup {"robots"}
            /\ policy' = IF policy = "disallowed" THEN policy ELSE Verdict(resp)
            /\ IF resp.status = "fail" \/ RobotsBlocked(resp.disallow)
               THEN /\ pc' = "raised"
                    /\ UNCHANGED <<robots_checked, season_idx>>
               ELSE /\ robots_checked' = TRUE
                    /\ pc' = "fetch_schedule"
                    /\ season_idx' = 1

CheckRobotsOnce ==
    /\ pc = "check_robots"
    /\ UNCHANGED <<store, files, last_request_timestamp, now, installed, driver,
                   running, schedule_games, game_idx, written, unresolved, prediction_pc>>
    /\ IF robots_checked
       THEN /\ pc' = "fetch_schedule"
            /\ season_idx' = 1
            /\ attempt' = NoAttempt
            /\ UNCHANGED <<robots_checked, cycle_events, policy>>
       ELSE \E resp \in RobotsResponses :
            \* self.session.get(self.ROBOTS_URL, timeout=15)
            /\ attempt' = Did(None, <<"robots">>, <<resp.status>>, None, "robots", 0, 0)
            /\ cycle_events' = cycle_events \cup {"robots"}
            /\ policy' = IF policy = "disallowed" THEN policy ELSE Verdict(resp)
            /\ IF resp.status = "ok" /\ RobotsBlocked(resp.disallow)
               THEN \* raise RuntimeError: _robots_checked stays False
                    /\ pc' = "raised"
                    /\ UNCHANGED <<robots_checked, season_idx>>
               ELSE /\ robots_checked' = TRUE
                    /\ pc' = "fetch_schedule"
                    /\ season_idx' = 1

--------------------------------------------------------------------------
\* scrape_season_data: the loop over the two seasons

\* The end of one iteration of "for season_start in seasons".
\* A loop over the seasons that asks again for the season it stands at.
NextSeasonRetrying ==
    /\ season_idx' = season_idx
    /\ pc' = "fetch_schedule"

NextSeason ==
    IF season_idx < Len(Seasons)
    THEN /\ season_idx' = season_idx + 1
         /\ pc' = "fetch_schedule"
    ELSE /\ season_idx' = 1
         /\ pc' = "returned"

\* What the schedule endpoint answers: a failure, a payload whose
\* league.standard is no list, or one with a list of games.
ScheduleResponses ==
    { [status |-> "fail"], [status |-> "ok", shape |-> "nolist", games |-> <<>>] }
    \cup { [status |-> "ok", shape |-> "list", games |-> g] : g \in Schedules }

\* What the one schedule request gave: an exception, no game, or games.
ScheduleResult(resp) ==
    IF resp.status = "fail" THEN "fail"
    ELSE IF resp.games = <<>> THEN "empty"
    ELSE "list"

\* _fetch_schedule, with the except/continue of scrape_season_data
FetchSchedule ==
    /\ pc = "fetch_schedule"
    /\ cycle_events' = cycle_events \cup {"schedule"}
    /\ UNCHANGED <<store, files, robots_checked, installed, driver, running,
                   written, policy, unresolved, prediction_pc>>
    /\ \E resp \in ScheduleResponses :
          /\ \E t \in PacedTimes :
                /\ Paced(t)
                /\ attempt' = Did(None, <<"schedule">>, <<ScheduleResult(resp)>>, None,
                                  "schedule", 1, t - now)
          /\ IF resp.status = "fail"
             THEN /\ NextSeason
                  /\ UNCHANGED <<schedule_games, game_idx>>
             ELSE /\ schedule_games' = resp.games
                  /\ game_idx' = 1
                  /\ pc' = "games"
                  /\ UNCHANGED season_idx

\* "for game in schedule_games" has run out: on to the export.
EndOfSchedule ==
    /\ pc = "games"
    /\ game_idx > Len(schedule_games)
    /\ pc' = "export"
    /\ schedule_games' = <<>>
    /\ game_idx' = 1
    /\ attempt' = NoAttempt
    /\ UNCHANGED <<store, files, robots_checked, last_request_timestamp, now,
                   installed, driver, running, season_idx, written, cycle_events,
                   policy, unresolved, prediction_pc>>

\* if not self._should_process_game(game): continue
SkipGame ==
    /\ pc = "games"
    /\ game_idx <= Len(schedule_games)
    /\ ~ShouldProcessGame(schedule_games[game_idx])
    /\ game_idx' = game_idx + 1
    /\ attempt' = NoAttempt
    /\ UNCHANGED <<store, files, robots_checked, last_request_timestamp, now,
                   installed, driver, running, pc, season_idx, schedule_games,
                   written, cycle_events, policy, unresolved, prediction_pc>>

--------------------------------------------------------------------------
\* _process_game

PbpResponses ==
    { [status |-> "fail"] } \cup { [status |-> "ok", payload |-> p] : p \in PbpPayloads }

\* Source (a): pbp_payload = self._fetch_json(pbp_url), None on RequestException;
\* if pbp_payload: first_event = self._extract_first_scoring_event(pbp_payload)
FromOfficialFeed(resp) ==
    IF resp.status = "fail" THEN NoEvent
    ELSE IF resp.payload.shape = "empty" THEN NoEvent
    ELSE ExtractFirstScoringEvent(resp.payload)

\* Source (b), _fetch_first_event_from_nba_api once the library is there:
\* any exception of the library gives None, the extraction is outside the try.
FromNbaApi(resp) ==
    IF resp.status = "fail" THEN NoEvent
    ELSE ExtractFirstScoringEvent(resp.payload)

\* Source (c), _fetch_first_event_from_bref once the page was requested.
FromBref(resp) ==
    IF resp.status = "fail" THEN NoEvent
    ELSE IF resp.shape \in {"notable", "nobody"} THEN NoEvent
    ELSE ScanRows(resp.rows, 1)

\* Is the library of source (b) called, is the page of source (c) requested?
CallsNbaApi == "nba_api" \in installed
CallsBref(game) == "bs4" \in installed /\ BuildBrefGameUrl(game) # None

\* An exception leaves scrape_season_data: its locals are gone.
Raised ==
    /\ pc' = "raised"
    /\ season_idx' = 1
    /\ schedule_games' = <<>>
    /\ game_idx' = 1

\* _process_game returned: on to the next game of the schedule.
NextGame ==
    /\ game_idx' = game_idx + 1
    /\ UNCHANGED <<pc, season_idx, schedule_games>>

\* The end of _process_game, given the sources called, which of them yielded
\* and what: return False, or build the record and upsert it.
Conclude(game, calls, results, yielded, result, t) ==
    LET record == BuildGameRecord(game, FormatSeasonLabel(Seasons[season_idx]),
                                  result.event, PbpUrl(game.gameId), t)
        kinds == { "pbp_" \o calls[i] : i \in 1..Len(calls) }
        done(outcome) == Did(game.gameId, calls, results,
                             IF result.kind = "event" THEN yielded ELSE None,
                             outcome, 1, t - now)
    IN  CASE result.kind = "raise" ->
               /\ Raised
               /\ attempt' = done("raised")
               /\ cycle_events' = cycle_events \cup kinds
               /\ UNCHANGED <<store, written, unresolved>>
          [] result.kind = "none" ->
               /\ NextGame
               /\ attempt' = done("none")
               /\ cycle_events' = cycle_events \cup kinds
               /\ unresolved' = unresolved \cup {game.gameId}
               /\ UNCHANGED <<store, written>>
          [] result.kind = "event" /\ ViolatesNotNull(record) ->
               \* sqlite3.IntegrityError out of _upsert_game_record
               /\ Raised
               /\ attempt' = done("raised")
               /\ cycle_events' = cycle_events \cup kinds
               /\ UNCHANGED <<store, written, unresolved>>
          [] result.kind = "event" /\ ~ViolatesNotNull(record) ->
               /\ NextGame
               /\ store' = UpsertGameRecord(store, record)
               /\ written' = [written EXCEPT ![record.game_id] = Append(@, record)]
               /\ attempt' = done("stored")
               /\ cycle_events' = cycle_events \cup kinds \cup {"upsert"}
               /\ UNCHANGED unresolved

\* A guard that lets only an exception end the fallback chain.
StopAfterRaise(result) == result.kind = "raise"

\* The guards "if not first_event:" between the sources: the chain ends with
\* the first event found (or with the exception that leaves _process_game).
StopAfter(result) == result.kind # "none"

\* Sources (b) and (c), tried after source (a) gave fa.
Fallbacks(game, t, fa) ==
    LET callsB == IF CallsNbaApi THEN <<"a", "b">> ELSE <<"a">>
        callsC == IF CallsBref(game) THEN Append(callsB, "c") ELSE callsB
    IN  \E rb \in (IF CallsNbaApi THEN PbpResponses ELSE {[status |-> "fail"]}) :
          LET fb == FromNbaApi(rb)
              resultsB == IF CallsNbaApi THEN <<fa.kind, fb.kind>> ELSE <<fa.kind>>
          IN  IF StopAfter(fb)
              THEN Conclude(game, callsB, resultsB, "b", fb, t)
              ELSE \E rc \in (IF CallsBref(game) THEN BrefResponses
                                                  ELSE {[status |-> "fail"]}) :
                     LET fc == FromBref(rc)
                         resultsC == IF CallsBref(game) THEN Append(resultsB, fc.kind)
                                                        ELSE resultsB
                     IN  Conclude(game, callsC, resultsC, "c", fc, t)

ProcessGame ==
    /\ pc = "games"
    /\ game_idx <= Len(schedule_games)
    /\ ShouldProcessGame(schedule_games[game_idx])
    /\ UNCHANGED <<files, robots_checked, installed, driver, running, policy,
                   prediction_pc>>
    /\ LET game == schedule_games[game_idx] IN
       IF ~Truthy(game.gameId) \/ GameAlreadyProcessed(store, game.gameId)
       THEN \* return False before any request
            /\ NextGame
            /\ attempt' = Did(game.gameId, <<>>, <<>>, None,
                              IF Truthy(game.gameId) THEN "already" ELSE "no_id", 0, 0)
            /\ UNCHANGED <<store, written, last_request_timestamp, now, cycle_events,
                           unresolved>>
       ELSE \E t \in PacedTimes :
            /\ Paced(t)
            /\ \E ra \in PbpResponses :
                 LET fa == FromOfficialFeed(ra) IN
                 IF StopAfter(fa)
                 THEN Conclude(game, <<"a">>, <<fa.kind>>, "a", fa, t)
                 ELSE Fallbacks(game, t, fa)

--------------------------------------------------------------------------
\* _export_season_files

\* The order of ISO date texts.
IsoOrdinal(text) ==
    DateOrdinal(CHOOSE d \in { DateTable[k] : k \in DOMAIN DateTable } : IsoFormat(d) = text)

\* The row as _load_games_from_db renames it.
ExportedGame(row) ==
    [game_id |-> row.game_id,
     date |-> row.game_date,
     home_team |-> row.home_team,
     away_team |-> row.away_team,
     first_basket_player |-> row.first_scoring_player,
     first_basket_team |-> row.first_scoring_team,
     first_basket_time |-> row.first_scoring_elapsed,
     play_description |-> row.first_scoring_description,
     source_url |-> row.source_url]

\* SELECT * FROM games WHERE season = ? ORDER BY game_date: every order of
\* the season's rows that the ORDER BY allows.
LoadGamesFromDb(db, season_label) ==
    LET rows == { row \in db : row.season = season_label }
        n == Cardinality(rows)
    IN  { [i \in 1..n |-> ExportedGame(order[i])] :
            order \in { f \in [1..n -> rows] :
                          /\ \A i, j \in 1..n : i # j => f[i] # f[j]
                          /\ \A i, j \in 1..n :
                                i < j => IsoOrdinal(f[i].game_date) <= IsoOrdinal(f[j].game_date) } }

\* os.path.join(self.data_dir, f"games_{season_label}.json") and its sibling
GamesPath(season_label) == "data/games_" \o season_label \o ".json"
PlayersPath(season_label) == "data/players_" \o season_label \o ".json"

\* The order of team codes as texts (ORDER BY team).
TeamsInOrder == <<"ATL", "BOS", "BRK", "CHI">>
TeamRank(team) == CHOOSE i \in 1..Len(TeamsInOrder) : TeamsInOrder[i] = team

\* SUM(first_scoring_elapsed) over a set of rows
RECURSIVE SumElapsed(_)
SumElapsed(rows) ==
    IF rows = {} THEN 0
    ELSE LET row == CHOOSE r \in rows : TRUE
         IN  row.first_scoring_elapsed + SumElapsed(rows \ {row})

\* round(numerator / denominator * 10^digits), as an integer
RoundRatio(numerator, denominator, scale) ==
    (2 * scale * numerator + denominator) \div (2 * denominator)

\* A count of the games of a team that looks at the home column only.
TeamGamesHomeOnly(db, season_label, team) ==
    Cardinality({ row \in db : row.season = season_label /\ row.home_team = team })

\* team_games.get(team, 0): SELECT team, COUNT(*) over the UNION ALL of the
\* home_team and the away_team column of the season
TeamGames(db, season_label, team) ==
    Cardinality({ row \in db : row.season = season_label /\ row.home_team = team })
    + Cardinality({ row \in db : row.season = season_label /\ row.away_team = team })

\* _build_player_summary: the rows of the GROUP BY query, each turned into a
\* player dict unless the team has no game; avg_first_basket_time in
\* hundredths of a second, first_basket_probability in ten-thousandths.
\* Every order that ORDER BY team, first_baskets DESC allows.
BuildPlayerSummary(db, season_label) ==
    LET rows == { row \in db : row.season = season_label /\ row.first_scoring_team # None }
        keys == { <<row.first_scoring_player, row.first_scoring_player_id,
                    row.first_scoring_team>> : row \in rows }
        group(k) == { row \in rows : /\ row.first_scoring_player = k[1]
                                      /\ row.first_scoring_player_id = k[2]
                                      /\ row.first_scoring_team = k[3] }
        kept == { k \in keys : TeamGames(db, season_label, k[3]) # 0 }
        player(k) ==
            LET first_baskets == Cardinality(group(k))
                games_played == TeamGames(db, season_label, k[3])
            IN  [player_id |-> IF Truthy(k[2]) THEN k[2] ELSE k[3] \o "_" \o k[1],
                 name |-> k[1],
                 team |-> k[3],
                 position |-> None,
                 avg_first_basket_time |-> RoundRatio(SumElapsed(group(k)), first_baskets, 100),
                 first_basket_probability |-> RoundRatio(first_baskets, games_played, 10000),
                 games_played |-> games_played,
                 first_baskets |-> first_baskets]
        n == Cardinality(kept)
    IN  { [i \in 1..n |-> player(order[i])] :
            order \in { f \in [1..n -> kept] :
                          /\ \A i, j \in 1..n : i # j => f[i] # f[j]
                          /\ \A i, j \in 1..n : i < j =>
                                \/ TeamRank(f[i][3]) < TeamRank(f[j][3])
                                \/ /\ f[i][3] = f[j][3]
                                   /\ Cardinality(group(f[i])) >= Cardinality(group(f[j])) } }

ExportSeasonFiles ==
    /\ pc = "export"
    /\ LET season_label == FormatSeasonLabel(Seasons[season_idx]) IN
       \E games \in LoadGamesFromDb(store, season_label) :
         \E players \in BuildPlayerSummary(store, season_label) :
           files' = (GamesPath(season_label) :> games
                     @@ PlayersPath(season_label) :> players) @@ files
    /\ cycle_events' = cycle_events \cup {"export"}
    /\ NextSeason
    /\ attempt' = NoAttempt
    /\ UNCHANGED <<store, robots_checked, last_request_timestamp, now, installed,
                   driver, running, schedule_games, game_idx, written, policy,
                   unresolved, prediction_pc>>

--------------------------------------------------------------------------
\* The drivers: main.py, then ScheduleManager._scrape_data_periodically.

\* main(): the initial scrape returned; train the model, start the scheduler,
\* whose scraping task enters its loop with a scrape cycle.
MainStartsScheduler ==
    /\ driver = "main"
    /\ pc = "returned"
    /\ driver' = "scheduler"
    /\ running' = TRUE
    /\ pc' = "check_robots"
    /\ cycle_events' = {}
    /\ attempt' = NoAttempt
    /\ prediction_pc' = "ready"
    /\ UNCHANGED <<store, files, robots_checked, last_request_timestamp, now,
                   installed, season_idx, schedule_games, game_idx, written, policy,
                   unresolved>>

\* A main() that logs the error of the initial scrape and goes on to start
\* the scheduler.
MainSurvives ==
    /\ driver = "main"
    /\ pc = "raised"
    /\ driver' = "scheduler"
    /\ running' = TRUE
    /\ pc' = "check_robots"
    /\ cycle_events' = {}
    /\ attempt' = NoAttempt
    /\ prediction_pc' = "ready"
    /\ UNCHANGED <<store, files, robots_checked, last_request_timestamp, now,
                   installed, season_idx, schedule_games, game_idx, written, policy,
                   unresolved>>

\* main(): the initial scrape raised; nothing catches it and the process ends.
MainCrashes ==
    /\ driver = "main"
    /\ pc = "raised"
    /\ pc' = "crashed"
    /\ cycle_events' = {}
    /\ attempt' = NoAttempt
    /\ UNCHANGED <<store, files, robots_checked, last_request_timestamp, now,
                   installed, driver, running, season_idx, schedule_games,
                   game_idx, written, policy, unresolved, prediction_pc>>

\* A loop that ends with the first exception of a cycle instead of waiting
\* an hour for the next one.
SchedulerBreaksOnError ==
    /\ driver = "scheduler"
    /\ pc \in {"returned", "raised"}
    /\ pc' = IF pc = "returned" THEN "sleep_24h" ELSE "cancelled"
    /\ cycle_events' = {}
    /\ attempt' = NoAttempt
    /\ UNCHANGED <<store, files, robots_checked, last_request_timestamp, now,
                   installed, driver, running, season_idx, schedule_games,
                   game_idx, written, policy, unresolved, prediction_pc>>

\* The scheduler's cycle ended: await asyncio.sleep(24 * 60 * 60) after a
\* return, await asyncio.sleep(60 * 60) after an exception.
SchedulerSleeps ==
    /\ driver = "scheduler"
    /\ pc \in {"returned", "raised"}
    /\ pc' = IF pc = "returned" THEN "sleep_24h" ELSE "sleep_1h"
    /\ cycle_events' = {}
    /\ attempt' = NoAttempt
    /\ UNCHANGED <<store, files, robots_checked, last_request_timestamp, now,
                   installed, driver, running, season_idx, schedule_games,
                   game_idx, written, policy, unresolved, prediction_pc>>

\* The sleep is over, far more than min_request_interval later, and
\* "while self.running" starts the next cycle.
SchedulerWakes ==
    /\ driver = "scheduler"
    /\ pc \in {"sleep_24h", "sleep_1h"}
    /\ running
    /\ now + min_request_interval <= MaxTime
    /\ now' = now + min_request_interval
    /\ pc' = "check_robots"
    /\ attempt' = Did(None, <<>>, <<>>, None, pc, 0, 0)
    /\ UNCHANGED <<store, files, robots_checked, last_request_timestamp,
                   installed, driver, running, season_idx, schedule_games,
                   game_idx, written, cycle_events, policy, unresolved, prediction_pc>>

\* ScheduleManager.stop(), from main()'s finally: running = False and both
\* tasks cancelled; the cancellation reaches the scraping task at its await.
Stop ==
    /\ driver = "scheduler"
    /\ pc \in {"sleep_24h", "sleep_1h"}
    /\ running
    /\ running' = FALSE
    /\ pc' = "cancelled"
    /\ prediction_pc' = "cancelled"
    /\ attempt' = NoAttempt
    /\ UNCHANGED <<store, files, robots_checked, last_request_timestamp, now,
                   installed, driver, season_idx, schedule_games, game_idx,
                   written, cycle_events, policy, unresolved>>

Next ==
    \/ CheckRobotsOnce
    \/ FetchSchedule
    \/ EndOfSchedule
    \/ SkipGame
    \/ ProcessGame
    \/ ExportSeasonFiles
    \/ MainStartsScheduler
    \/ MainCrashes
    \/ SchedulerSleeps
    \/ SchedulerWakes
    \/ Stop

Spec == Init /\ [][Next]_vars

--------------------------------------------------------------------------
\* ScheduleManager._make_predictions_periodically, the second task of start()

\* What a scoreboard source gives get_todays_games: a failure it catches, a
\* payload whose shape makes the reading raise, no game, or games.
ScoreboardResults == {"fail", "raise", "none", "games"}

\* One round of the prediction loop, from "while self.running" to its await:
\* get_todays_games asks the official scoreboard through _fetch_json, then
\* nba_api and Basketball-Reference while no game was found, and
\* predict_first_basket raises for the first game when the model is not
\* trained; the round ends in asyncio.sleep(60 * 60), after an exception in
\* asyncio.sleep(10 * 60).  It runs while the scraping task is at its await.
PredictionRound ==
    /\ driver = "scheduler"
    /\ running
    /\ prediction_pc = "ready"
    /\ pc \in {"sleep_24h", "sleep_1h"}
    /\ UNCHANGED <<store, files, robots_checked, installed, driver, running, pc,
                   season_idx, schedule_games, game_idx, written, cycle_events,
                   policy, unresolved>>
    /\ \E t \in PacedTimes :
         /\ Paced(t)
         /\ \E ra \in ScoreboardResults, trained \in BOOLEAN :
              LET useB == ra \in {"fail", "none"} /\ CallsNbaApi IN
              \E rb \in (IF useB THEN ScoreboardResults ELSE {"skipped"}) :
                LET useC == /\ ra \in {"fail", "none"}
                            /\ rb \in {"fail", "none", "skipped"}
                            /\ "bs4" \in installed
                IN
                \E rc \in (IF useC THEN {"fail", "none", "games"} ELSE {"skipped"}) :
                  LET results == <<ra, rb, rc>>
                      found == \E i \in 1..3 : results[i] = "games"
                      raised == \/ \E i \in 1..3 : results[i] = "raise"
                                \/ found /\ ~trained
                  IN  /\ prediction_pc' = IF raised THEN "sleep_10m" ELSE "sleep_1h"
                      /\ attempt' = Did(None, <<"scoreboard">>, results, None,
                                        IF raised THEN "prediction_raised"
                                                  ELSE "predicted",
                                        1, t - now)

\* The sleep of the prediction task is over.
PredictionWakes ==
    /\ prediction_pc \in {"sleep_1h", "sleep_10m"}
    /\ now + min_request_interval <= MaxTime
    /\ now' = now + min_request_interval
    /\ prediction_pc' = "ready"
    /\ attempt' = NoAttempt
    /\ UNCHANGED <<store, files, robots_checked, last_request_timestamp, installed,
                   driver, running, pc, season_idx, schedule_games, game_idx,
                   written, cycle_events, policy, unresolved>>

\* The scheduler on its own: start() has set running and created both
\* tasks, after an initial scrape of main() that passed the robots check and
\* whose two schedule requests failed, so that nothing is stored or exported
\* yet; the time since that scrape is more than min_request_interval.
SchedulerInit ==
    /\ store = {}
    /\ files = NoFiles
    /\ robots_checked = TRUE
    /\ last_request_timestamp = 0
    /\ now = min_request_interval
    /\ installed \in {{}, {"nba_api"}}
    /\ driver = "scheduler"
    /\ running = TRUE
    /\ pc = "check_robots"
    /\ season_idx = 1
    /\ schedule_games = <<>>
    /\ game_idx = 1
    /\ written = [g \in GameIds |-> <<>>]
    /\ attempt = NoAttempt
    /\ cycle_events = {}
    /\ policy = "clear"
    /\ unresolved = {}
    /\ prediction_pc = "ready"

SchedulerNext ==
    \/ CheckRobotsOnce
    \/ FetchSchedule
    \/ EndOfSchedule
    \/ SkipGame
    \/ ProcessGame
    \/ ExportSeasonFiles
    \/ SchedulerSleeps
    \/ SchedulerWakes
    \/ Stop
    \/ PredictionRound
    \/ PredictionWakes

SchedulerSpec == SchedulerInit /\ [][SchedulerNext]_vars

--------------------------------------------------------------------------
\* The store on its own: _upsert_game_record called with arbitrary payloads.

\* The v-th payload for game_id g; payload 0 lacks the home team.
StorePayload(g, v) ==
    [game_id |-> g,
     season |-> FormatSeasonLabel(Seasons[1 + (v % 2)]),
     game_date |-> IsoFormat([year |-> 2024, month |-> 1, day |-> 10 + v]),
     home_team |-> IF v = 0 THEN None ELSE IF v % 2 = 1 THEN "ATL" ELSE "BOS",
     away_team |-> IF v % 2 = 1 THEN "BOS" ELSE "ATL",
     first_scoring_team |-> IF v % 2 = 1 THEN "ATL" ELSE "BOS",
     first_scoring_player |-> "Player " \o ToString(v),
     first_scoring_player_id |-> ToString(200 + v),
     first_scoring_description |-> "Basket " \o ToString(v),
     first_scoring_elapsed |-> 10 * v,
     source_url |-> PbpUrl(g) \o "?v=" \o ToString(v),
     last_updated |-> v]

StorePayloads == { StorePayload(g, v) : g \in GameIds, v \in 0..MaxPayloads }

StoreInit ==
    /\ Init
    /\ installed = {}

\* One call of _upsert_game_record: the row is written, or the NOT NULL
\* constraint raises and the table is as before.
DirectUpsert(record) ==
    /\ Len(written[record.game_id]) < MaxUpserts
    /\ IF ViolatesNotNull(record)
       THEN /\ attempt' = Did(record.game_id, <<>>, <<>>, None, "raised", 0, 0)
            /\ UNCHANGED <<store, written>>
       ELSE /\ store' = UpsertGameRecord(store, record)
            /\ written' = [written EXCEPT ![record.game_id] = Append(@, record)]
            /\ attempt' = Did(record.game_id, <<>>, <<>>, None, "stored", 0, 0)
    /\ UNCHANGED <<files, robots_checked, last_request_timestamp, now, installed,
                   driver, running, pc, season_idx, schedule_games, game_idx,
                   cycle_events, policy, unresolved, prediction_pc>>

StoreNext == \E record \in StorePayloads : DirectUpsert(record)

StoreSpec == StoreInit /\ [][StoreNext]_vars

--------------------------------------------------------------------------
\* The pure helpers on their own: _calculate_elapsed_seconds and the two
\* directions of the team-code table, each called once with an input.

\* The clock texts: those that parse as MM:SS, an ISO duration and None.
ClockTexts == DOMAIN ClockTable \cup {"PT04M30.00S", None}

PeriodTypes == {"REGULAR", "OVERTIME", "overtime"}

\* A call of _calculate_elapsed_seconds that has not returned yet.
ElapsedCall(clock, period, period_type) ==
    [fn |-> "elapsed", clock |-> clock, period |-> period,
     period_type |-> period_type, returned |-> FALSE, value |-> 0]

\* A code sent through TEAM_TO_BREF and back through _extract_bref_team_code.
RoundTripCall(code) ==
    [fn |-> "round_trip", code |-> code, returned |-> FALSE, value |-> None]

CallInit ==
    /\ store = {}
    /\ files = NoFiles
    /\ robots_checked = FALSE
    /\ last_request_timestamp = 0
    /\ now = min_request_interval
    /\ installed = {}
    /\ driver = "main"
    /\ running = FALSE
    /\ pc = "check_robots"
    /\ season_idx = 1
    /\ schedule_games = <<>>
    /\ game_idx = 1
    /\ written = [g \in GameIds |-> <<>>]
    /\ cycle_events = {}
    /\ policy = "unread"
    /\ unresolved = {}
    /\ prediction_pc = "none"
    /\ attempt \in
         { ElapsedCall(c, p, t) : c \in ClockTexts, p \in 0..MaxPeriod, t \in PeriodTypes }
         \cup { RoundTripCall(code) : code \in DOMAIN TEAM_TO_BREF }

CallElapsed ==
    /\ attempt.fn = "elapsed"
    /\ ~attempt.returned
    /\ attempt' = [attempt EXCEPT
                     !.returned = TRUE,
                     !.value = CalculateElapsedSeconds(attempt.clock, attempt.period,
                                                       attempt.period_type)]
    /\ UNCHANGED <<store, files, robots_checked, last_request_timestamp, now,
                   installed, driver, running, pc, season_idx, schedule_games,
                   game_idx, written, cycle_events, policy, unresolved, prediction_pc>>

\* bref_code = self.TEAM_TO_BREF.get(code), then the code read back from the
\* team link that carries bref_code
CallRoundTrip ==
    /\ attempt.fn = "round_trip"
    /\ ~attempt.returned
    /\ attempt' = [attempt EXCEPT
                     !.returned = TRUE,
                     !.value = ExtractBrefTeamCode(BrefTeamHref(TEAM_TO_BREF[attempt.code]))]
    /\ UNCHANGED <<store, files, robots_checked, last_request_timestamp, now,
                   installed, driver, running, pc, season_idx, schedule_games,
                   game_idx, written, cycle_events, policy, unresolved, prediction_pc>>

CallNext == CallElapsed \/ CallRoundTrip

CallSpec == CallInit /\ [][CallNext]_vars

--------------------------------------------------------------------------
\* Properties.

\* The rows of the table with a given game_id.
RowsOf(g) == { row \in store : row.game_id = g }

\* C1: at most one row per game_id, whatever was upserted and how often.
C1_OneRowPerGameId ==
    \A r1, r2 \in store : r1.game_id = r2.game_id => r1 = r2

\* A game_id was upserted while present, with another payload, and has one row.
C1_Witness ==
    \E g \in GameIds :
        /\ Len(written[g]) >= 2
        /\ written[g][1] # written[g][2]
        /\ Cardinality(RowsOf(g)) = 1

AllFieldsDiffer(r1, r2) ==
    /\ r1.season # r2.season
    /\ r1.game_date # r2.game_date
    /\ r1.home_team # r2.home_team
    /\ r1.away_team # r2.away_team
    /\ r1.first_scoring_team # r2.first_scoring_team
    /\ r1.first_scoring_player # r2.first_scoring_player
    /\ r1.first_scoring_player_id # r2.first_scoring_player_id
    /\ r1.first_scoring_description # r2.first_scoring_description
    /\ r1.first_scoring_elapsed # r2.first_scoring_elapsed
    /\ r1.source_url # r2.source_url
    /\ r1.last_updated # r2.last_updated

\* C2: after upserts of one game_id its only row is the latest payload, in
\* every field.
C2_LatestPayloadWins ==
    \A g \in GameIds :
        written[g] # <<>> => RowsOf(g) = { written[g][Len(written[g])] }

\* A game_id upserted twice with payloads that differ in every field.
C2_Witness ==
    \E g \in GameIds :
        /\ Len(written[g]) = 2
        /\ AllFieldsDiffer(written[g][1], written[g][2])
        /\ RowsOf(g) = { written[g][2] }

\* C3: a game_id that was upserted successfully is found by
\* _game_already_processed from then on.
C3_ExistsAfterUpsert ==
    \A g \in GameIds : written[g] # <<>> => GameAlreadyProcessed(store, g)

\* A later scrape cycle meets a game stored by an earlier one.
C3_Witness ==
    /\ driver = "scheduler"
    /\ attempt.outcome = "already"
    /\ written[attempt.game_id] # <<>>
    /\ GameAlreadyProcessed(store, attempt.game_id)

\* C4: no row has a null first_scoring_team, none was ever written, and a
\* game for which no source gave an event is not stored.
C4_NoNullFirstScoringTeam ==
    /\ \A row \in store : Truthy(row.first_scoring_team)
    /\ \A g \in GameIds : \A i \in 1..Len(written[g]) :
           Truthy(written[g][i].first_scoring_team)
    /\ (attempt.outcome = "none" /\ attempt.game_id \in GameIds)
           => written[attempt.game_id] = <<>> /\ RowsOf(attempt.game_id) = {}

\* Every source was asked for a game, none gave an event, nothing was stored.
C4_Witness ==
    /\ attempt.outcome = "none"
    /\ attempt.calls = <<"a", "b", "c">>
    /\ RowsOf(attempt.game_id) = {}

Rank(source) == CASE source = "a" -> 1 [] source = "b" -> 2 [] source = "c" -> 3

\* C5: for a game the sources are called in the order a, b, c, each at most
\* once, starting with a, and no source is called after one that gave an
\* event; so an event from (a) leaves (b) and (c) uncalled.
C5_SourcePriority ==
    attempt.outcome \in {"none", "stored", "raised"} /\ attempt.calls # <<>> =>
        /\ attempt.calls[1] = "a"
        /\ \A i, j \in 1..Len(attempt.calls) :
               i < j => Rank(attempt.calls[i]) < Rank(attempt.calls[j])
        /\ \A i \in 1..Len(attempt.calls) :
               i < Len(attempt.calls) => attempt.results[i] = "none"
        /\ ("c" \in { attempt.calls[i] : i \in 1..Len(attempt.calls) }
               /\ "nba_api" \in installed)
               => attempt.calls = <<"a", "b", "c">>
        /\ attempt.yielded = "a" => attempt.calls = <<"a">>

\* Source (a) gave the event of a stored game, with the libraries of (b) and
\* (c) installed.
C5_Witness ==
    /\ attempt.outcome = "stored"
    /\ attempt.yielded = "a"
    /\ attempt.calls = <<"a">>
    /\ installed = {"nba_api", "bs4"}

\* C6: a step never sends a play-by-play request for a game_id that has a row.
C6_StoredGameNotFetched ==
    [][ \A g \in GameIds :
          RowsOf(g) # {} => ~(attempt'.game_id = g /\ attempt'.calls # <<>>) ]_vars

\* A later cycle met a stored game and sent nothing for it.
C6_Witness ==
    /\ driver = "scheduler"
    /\ attempt.outcome = "already"
    /\ attempt.calls = <<>>
    /\ RowsOf(attempt.game_id) # {}

\* C7: every request of a step went through the pacing step.
C7_EveryRequestPaced ==
    attempt.paced = Len(attempt.calls)

\* C8: a request of _fetch_json goes out at least min_request_interval after
\* the time the pacer recorded for the one before, and the recorded time is
\* the time it goes out and never decreases.
C8_PacedRequests ==
    [][ attempt'.paced > 0 =>
          /\ now' >= last_request_timestamp + min_request_interval
          /\ last_request_timestamp' = now'
          /\ last_request_timestamp' >= last_request_timestamp ]_vars

\* The pacer slept before a request.
C8_Witness ==
    /\ attempt.paced > 0
    /\ attempt.slept > 0
    /\ last_request_timestamp = now

ScrapeEffects == {"schedule", "pbp_a", "pbp_b", "pbp_c", "upsert", "export"}

\* C9: when robots.txt was read and disallows a configured prefix, the cycle
\* has raised and it has fetched, written and exported nothing.
C9_DisallowRaisesFirst ==
    (attempt.outcome = "robots" /\ policy = "disallowed") =>
        /\ pc = "raised"
        /\ cycle_events \cap ScrapeEffects = {}
        /\ \A g \in GameIds : written[g] = <<>>

\* robots.txt disallowed a configured prefix and the cycle raised.
C9_Witness ==
    /\ attempt.outcome = "robots"
    /\ attempt.results = <<"ok">>
    /\ policy = "disallowed"
    /\ pc = "raised"

\* C10: once robots.txt was seen to disallow a configured prefix, no step
\* sends a schedule or play-by-play request.
C10_NoFetchAfterDisallow ==
    [][ policy = "disallowed" =>
          \A i \in 1..Len(attempt'.calls) :
              attempt'.calls[i] \notin {"schedule", "a", "b", "c"} ]_vars

\* The disallow was seen and the process has ended.
C10_Witness ==
    /\ policy = "disallowed"
    /\ pc = "crashed"

\* The state of the policy check as the scraper holds it: the flag is set
\* once the check passed or was skipped; a disallow raises and leaves it unset.
CheckState ==
    IF robots_checked THEN "allowed"
    ELSE IF policy = "disallowed" THEN "fatal"
    ELSE "unchecked"

\* C11: robots.txt is requested only while it was never requested before and
\* the check is unchecked; the check leaves 'unchecked' with the first use of
\* the pipeline (to allowed or fatal) and never changes afterwards, over any
\* number of scrape cycles.
C11_PolicyCheckedOnce ==
    [][ /\ attempt'.outcome = "robots" => (policy = "unread" /\ CheckState = "unchecked")
        /\ CheckState # "unchecked" => CheckState' = CheckState
        /\ CheckState' = "unchecked" => (pc' = "check_robots" /\ driver' = "main")
        /\ CheckState = "unchecked" => CheckState' \in {"allowed", "fatal"} ]_vars

\* A cycle of the scheduler passed the check without a request for robots.txt.
C11_Witness ==
    /\ driver = "scheduler"
    /\ pc = "fetch_schedule"
    /\ attempt = NoAttempt
    /\ "robots" \notin cycle_events
    /\ CheckState = "allowed"

\* C12: when the request for robots.txt fails, the check does not raise, it
\* is marked as done, and the cycle stands at the schedule request of the
\* first of its two seasons, which it can send.
C12_UnreachablePolicySkipped ==
    (attempt.outcome = "robots" /\ attempt.results = <<"fail">>) =>
        /\ pc = "fetch_schedule"
        /\ season_idx = 1
        /\ Len(Seasons) = 2
        /\ robots_checked
        /\ ENABLED FetchSchedule

\* The request for robots.txt failed and the check is marked as done.
C12_Witness ==
    /\ attempt.outcome = "robots"
    /\ attempt.results = <<"fail">>
    /\ robots_checked
    /\ pc = "fetch_schedule"

\* C13: when the schedule request of a season failed or gave no game, a
\* request to a secondary schedule source follows for that season before the
\* season is given up.
C13_SecondaryScheduleFetched ==
    (attempt.outcome = "schedule" /\ attempt.results[1] \in {"fail", "empty"}) =>
        /\ Len(attempt.calls) >= 2
        /\ attempt.calls[2] = "schedule_secondary"

\* Does a schedule entry lack its home or its away team code?
Teamless(game) == ~Truthy(game.hTeam) \/ ~Truthy(game.vTeam)

\* C14: for a schedule entry without home or away team code the per-game
\* step sends no play-by-play request and reaches no upsert: no source is
\* called and no event is kept for a record.
C14_TeamlessEntryExcluded ==
    [][ (/\ pc = "games"
         /\ game_idx <= Len(schedule_games)
         /\ Teamless(schedule_games[game_idx]))
        => (attempt'.calls = <<>> /\ attempt'.yielded = None) ]_vars

\* C15: a failure while a season's games are processed does not end the
\* scrape cycle: from the loop over the games, a step that reached no upsert
\* is followed by the next game or by the season's export, and the schedule
\* request and the export are followed by the games or by the other season.
C15_CycleNeverAborted ==
    [][ ((pc = "games" /\ attempt'.yielded = None) => pc' \in {"games", "export"})
        /\ (pc \in {"fetch_schedule", "export"} =>
               pc' \in {"fetch_schedule", "games", "returned"}) ]_vars

\* C16: no source's payload makes the extraction raise: every source called
\* for a game ends with an event or with none, and a step that found no
\* event in a malformed payload goes on to the next source.
C16_MalformedIsNoEvent ==
    \A i \in 1..Len(attempt.results) : attempt.results[i] # "raise"

\* C17: every first_scoring_elapsed that was computed and stored is >= 0.
C17_ElapsedNonNegative ==
    \A row \in store : row.first_scoring_elapsed >= 0

\* C18: with the clock and the period type fixed, the elapsed seconds do not
\* decrease as the period grows, from period 4 to period 5 included.
C18_MonotoneInPeriod ==
    (attempt.fn = "elapsed" /\ attempt.returned) =>
        \A q \in 0..MaxPeriod + 1 :
            LET other == CalculateElapsedSeconds(attempt.clock, q, attempt.period_type)
            IN  /\ attempt.period < q => attempt.value <= other
                /\ q < attempt.period => other <= attempt.value

\* Period 4 of regulation was computed, and period 5 lies 300 seconds later.
C18_Witness ==
    /\ attempt.fn = "elapsed"
    /\ attempt.returned
    /\ attempt.period = 4
    /\ attempt.period_type = "REGULAR"
    /\ attempt.clock = "00:00"
    /\ attempt.value = 2880
    /\ CalculateElapsedSeconds(attempt.clock, 5, attempt.period_type) = 3180

\* minutes * 60 + seconds of a clock text, 12:00 where it does not parse
ClockSeconds(clock) ==
    IF clock \in DOMAIN ClockTable
    THEN ClockTable[clock].minutes * 60 + ClockTable[clock].seconds
    ELSE 12 * 60

\* The three named values of the elapsed seconds.
ElapsedExamples ==
    /\ (attempt.clock = "12:00" /\ attempt.period = 1 /\ attempt.period_type = "REGULAR")
           => attempt.value = 0
    /\ (attempt.clock = "00:00" /\ attempt.period = 1 /\ attempt.period_type = "REGULAR")
           => attempt.value = 720
    /\ (attempt.clock = "00:00" /\ attempt.period = 5 /\ attempt.period_type = "OVERTIME")
           => attempt.value = 3180

C20_RoundTrip ==
    (attempt.fn = "round_trip" /\ attempt.returned) => attempt.value = attempt.code

\* The keys whose basketball-reference code has a later key in the table.
ShadowedCodes == ("BKN" :> "BRK" @@ "CHA" :> "CHO" @@ "NOP" :> "NOH" @@ "PHX" :> "PHO")

\* C20 as amended: every key of the team-code table comes back from the
\* round trip, except BKN, CHA, NOP and PHX, which come back as the later key
\* of the same basketball-reference code (BRK, CHO, NOH, PHO); what comes
\* back always has the basketball-reference code of what went in.
C20_RoundTripUpToSharedCode ==
    (attempt.fn = "round_trip" /\ attempt.returned) =>
        /\ attempt.code \notin DOMAIN ShadowedCodes => attempt.value = attempt.code
        /\ attempt.code \in DOMAIN ShadowedCodes =>
               attempt.value = ShadowedCodes[attempt.code]
        /\ attempt.value \in DOMAIN TEAM_TO_BREF
        /\ TEAM_TO_BREF[attempt.value] = TEAM_TO_BREF[attempt.code]

\* A key that shares its basketball-reference code came back as itself.
C20_Witness ==
    /\ attempt.fn = "round_trip"
    /\ attempt.returned
    /\ attempt.code = "NOH"
    /\ TEAM_TO_BREF[attempt.code] = "NOP"
    /\ attempt.value = "NOH"

\* The rows of a season, and how often a team is the home and the away team
\* among them.
SeasonRows(season_label) == { row \in store : row.season = season_label }
HomeAppearances(season_label, team) ==
    Cardinality({ row \in SeasonRows(season_label) : row.home_team = team })
AwayAppearances(season_label, team) ==
    Cardinality({ row \in SeasonRows(season_label) : row.away_team = team })

\* The rows of a season in which the player of a summary scored first.
FirstBasketsOf(season_label, summary) ==
    { row \in SeasonRows(season_label) :
        /\ row.first_scoring_player = summary.name
        /\ row.first_scoring_team = summary.team
        /\ summary.player_id = (IF Truthy(row.first_scoring_player_id)
                                THEN row.first_scoring_player_id
                                ELSE row.first_scoring_team \o "_" \o row.first_scoring_player) }

\* C21: in the players file an export writes for a season, games_played of
\* a summary is the home plus the away appearances of its team among the
\* season's stored games and is not zero, first_baskets counts the games in
\* which the player scored first, first_basket_probability is
\* first_baskets / games_played (to four decimals), every first scorer whose
\* team has a game is listed and none whose team has no game.
C21_AggregationAtExport ==
    [][ pc = "export" =>
          LET season_label == FormatSeasonLabel(Seasons[season_idx])
              players == files'[PlayersPath(season_label)]
          IN  /\ \A i \in 1..Len(players) :
                    LET summary == players[i] IN
                    /\ summary.games_played =
                          HomeAppearances(season_label, summary.team)
                          + AwayAppearances(season_label, summary.team)
                    /\ summary.games_played > 0
                    /\ summary.first_baskets =
                          Cardinality(FirstBasketsOf(season_label, summary))
                    /\ summary.first_baskets > 0
                    /\ 2 * (summary.first_basket_probability * summary.games_played
                            - 10000 * summary.first_baskets) <= summary.games_played
                    /\ 2 * (10000 * summary.first_baskets
                            - summary.first_basket_probability * summary.games_played)
                          <= summary.games_played
              /\ \A row \in SeasonRows(season_label) :
                    (HomeAppearances(season_label, row.first_scoring_team)
                     + AwayAppearances(season_label, row.first_scoring_team) > 0)
                    <=> \E i \in 1..Len(players) :
                          row \in FirstBasketsOf(season_label, players[i]) ]_vars

\* A team was home once and away once, and its player scored first in one of
\* the two games: games_played 2, probability 0.5.
C21_Witness ==
    \E season_label \in SeasonLabels :
        /\ PlayersPath(season_label) \in DOMAIN files
        /\ \E i \in 1..Len(files[PlayersPath(season_label)]) :
              LET summary == files[PlayersPath(season_label)][i] IN
              /\ summary.games_played = 2
              /\ HomeAppearances(season_label, summary.team) = 1
              /\ AwayAppearances(season_label, summary.team) = 1
              /\ summary.first_baskets = 1
              /\ summary.first_basket_probability = 5000

\* C22: every summary of every players file has a first_basket_probability
\* within [0, 1].
C22_ProbabilityWithinUnit ==
    \A season_label \in SeasonLabels :
        PlayersPath(season_label) \in DOMAIN files =>
            \A i \in 1..Len(files[PlayersPath(season_label)]) :
                LET summary == files[PlayersPath(season_label)][i] IN
                /\ 0 <= summary.first_basket_probability
                /\ summary.first_basket_probability <= 10000
                /\ summary.first_baskets <= summary.games_played

\* C23: when a scrape cycle has returned, the games file and the players
\* file of each of the two seasons exist and are what the store gives for
\* the season.
C23_SnapshotsRegenerated ==
    pc = "returned" =>
        \A season_label \in SeasonLabels :
            /\ GamesPath(season_label) \in DOMAIN files
            /\ PlayersPath(season_label) \in DOMAIN files
            /\ files[GamesPath(season_label)] \in LoadGamesFromDb(store, season_label)
            /\ files[PlayersPath(season_label)] \in BuildPlayerSummary(store, season_label)

\* C24: every event an extractor returned and the pipeline kept has a team,
\* a player and a description, and its player is a name the source gave,
\* not the description put in its place.
C24_EventFullyPopulated ==
    \A g \in GameIds : \A i \in 1..Len(written[g]) :
        LET record == written[g][i] IN
        /\ Truthy(record.first_scoring_team)
        /\ Truthy(record.first_scoring_player)
        /\ Truthy(record.first_scoring_description)
        /\ record.first_scoring_player # record.first_scoring_description

\* Is the status of a schedule entry live or final, is its date in the future?
LiveOrFinal(game) == IntOrZero(game.statusNum) >= 2
InFuture(game) ==
    /\ Parsable(game.startDateEastern)
    /\ DateOrdinal(DateTable[game.startDateEastern]) > DateOrdinal(Today)

\* C25: a step sends a play-by-play request for a schedule entry only if the
\* entry is live or final or its date is not in the future; for an entry
\* that is scheduled with a future date it sends nothing and stores nothing.
C25_OnlyStartedGamesAttempted ==
    [][ (pc = "games" /\ game_idx <= Len(schedule_games)) =>
          LET game == schedule_games[game_idx] IN
          /\ attempt'.calls # <<>> => (LiveOrFinal(game) \/ ~InFuture(game))
          /\ (~LiveOrFinal(game) /\ InFuture(game)) =>
                (attempt'.calls = <<>> /\ store' = store) ]_vars

\* A scheduled game with a future date was passed over, and the loop stands
\* at the entry after it.
C25_Witness ==
    /\ pc = "games"
    /\ game_idx = 2
    /\ schedule_games[1] = FutureGame
    /\ ~LiveOrFinal(schedule_games[1])
    /\ InFuture(schedule_games[1])
    /\ attempt = NoAttempt
    /\ store = {}

\* The order of game_ids as texts.
GameIdRank(game_id) ==
    CASE game_id = "G1" -> 1 [] game_id = "G2" -> 2 [] OTHER -> 0

\* C26: the schedule the loop over the games runs through is in ascending
\* order of (date, game_id).
C26_ScheduleOrdered ==
    \A i, j \in 1..Len(schedule_games) :
        (/\ i < j
         /\ Parsable(schedule_games[i].startDateEastern)
         /\ Parsable(schedule_games[j].startDateEastern)) =>
            LET di == DateOrdinal(DateTable[schedule_games[i].startDateEastern])
                dj == DateOrdinal(DateTable[schedule_games[j].startDateEastern])
            IN  \/ di < dj
                \/ /\ di = dj
                   /\ GameIdRank(schedule_games[i].gameId)
                        <= GameIdRank(schedule_games[j].gameId)

\* C27: a record whose event came from source (b) or (c) does not carry the
\* URL of source (a) as its source_url.
C27_SourceUrlIsProvenance ==
    (attempt.outcome = "stored" /\ attempt.yielded \in {"b", "c"}) =>
        \A row \in RowsOf(attempt.game_id) : row.source_url # PbpUrl(attempt.game_id)

\* The place of a request in the order of the sources of a game.
SourceRank(source) ==
    CASE source = "a" -> 1 [] source = "b" -> 2 [] source = "c" -> 3 [] OTHER -> 0

\* C28: inside a scrape cycle nothing is asked for twice: a step sends each
\* of the sources (a), (b), (c) at most once for its game and in this order,
\* the schedule of a season is requested once by the step that stands at the
\* season, and the loop over the seasons only moves forward, from the first
\* season at the start of the cycle, also after a request that failed.
C28_NoRetryWithinCycle ==
    [][ /\ \A i, j \in 1..Len(attempt'.calls) :
              i < j => SourceRank(attempt'.calls[i]) < SourceRank(attempt'.calls[j])
        /\ pc = "fetch_schedule" =>
              /\ attempt'.calls = <<"schedule">>
              /\ pc' \in {"fetch_schedule", "games", "returned"}
        /\ (pc' = "fetch_schedule" /\ pc # "check_robots") =>
              season_idx' = season_idx + 1
        /\ (pc' = "fetch_schedule" /\ pc = "check_robots") =>
              (season_idx' = 1 /\ "schedule" \notin cycle_events')
        /\ pc' \in {"games", "export"} => season_idx' = season_idx ]_vars

\* The schedule request of the first season failed in the first cycle (the
\* season has no file), the loop went on to the second season, and there a
\* game whose three sources all gave nothing was passed over.
C28_Witness ==
    /\ driver = "main"
    /\ pc = "games"
    /\ season_idx = 2
    /\ GamesPath(FormatSeasonLabel(Seasons[1])) \notin DOMAIN files
    /\ attempt.calls = <<"a", "b", "c">>
    /\ attempt.results = <<"none", "none", "none">>
    /\ attempt.outcome = "none"
    /\ game_idx = 2

\* C29: no step of the pipeline changes or removes a stored row: the store
\* changes only by a row for a game_id that had none, and a step that stands
\* at a game that is stored leaves the store as it is.
C29_StoredRecordsUntouched ==
    [][ /\ \A row \in store : row \in store'
        /\ \A row \in store' : RowsOf(row.game_id) # {} => row \in store
        /\ (/\ pc = "games"
            /\ game_idx <= Len(schedule_games)
            /\ RowsOf(schedule_games[game_idx].gameId) # {}) => store' = store ]_vars

\* A cycle of the scheduler, later than the write, has come past a stored
\* game: its row is the one record ever written for it.
C29_Witness ==
    /\ driver = "scheduler"
    /\ attempt.outcome = "already"
    /\ Len(written[attempt.game_id]) = 1
    /\ RowsOf(attempt.game_id) = {written[attempt.game_id][1]}
    /\ \A row \in RowsOf(attempt.game_id) : row.last_updated < now

\* C30: a step that stands at an entry that passes the filter, has its
\* game_id and both teams behaves as if the game had never been tried: with
\* no row for the game it sends the request of source (a) first, whatever
\* earlier steps found; when no source has an event it leaves the store and
\* the records written as they are; when a source has an event the row of
\* the game is added in this step.
C30_UnresolvedGameTriedAgain ==
    [][ (/\ pc = "games"
         /\ game_idx <= Len(schedule_games)
         /\ ShouldProcessGame(schedule_games[game_idx])
         /\ Truthy(schedule_games[game_idx].gameId)
         /\ ~Teamless(schedule_games[game_idx])) =>
          LET game_id == schedule_games[game_idx].gameId IN
          /\ RowsOf(game_id) = {} =>
                /\ attempt'.game_id = game_id
                /\ attempt'.calls # <<>>
                /\ attempt'.calls[1] = "a"
          /\ attempt'.outcome = "none" =>
                /\ store' = store
                /\ written' = written
                /\ game_id \in unresolved'
          /\ attempt'.yielded # None =>
                /\ attempt'.outcome = "stored"
                /\ \E row \in store' : row.game_id = game_id /\ row \notin store ]_vars

\* A cycle of the scheduler has stored, from the one entry of the first
\* season's schedule, a game for which a step of an earlier cycle had found
\* no event in any source.
C30_Witness ==
    /\ driver = "scheduler"
    /\ pc = "games"
    /\ season_idx = 1
    /\ schedule_games = <<FinalGame>>
    /\ game_idx = 2
    /\ attempt.outcome = "stored"
    /\ attempt.game_id = FinalGame.gameId
    /\ attempt.game_id \in unresolved
    /\ Len(written[attempt.game_id]) = 1
    /\ RowsOf(attempt.game_id) = {written[attempt.game_id][1]}

\* The waits of the scraping task and of the prediction task.
ScrapeWaits == {"sleep_24h", "sleep_1h"}
PredictionWaits == {"sleep_1h", "sleep_10m"}

\* C31: under the scheduler a scrape cycle that raised goes to the one-hour
\* wait and one that returned to the 24-hour wait, with running unchanged; a
\* wait of a running scheduler can always end, and it ends only in the start
\* of the next scrape cycle or in stop(), which clears running and cancels
\* both tasks; and once running is cleared no scrape cycle and no prediction
\* round starts: nothing moves any more.
C31_SchedulerRetryLoop ==
    [][ driver = "scheduler" =>
          /\ (pc = "raised" /\ pc' # pc) => (pc' = "sleep_1h" /\ running')
          /\ (pc = "returned" /\ pc' # pc) => (pc' = "sleep_24h" /\ running')
          /\ (pc \in ScrapeWaits /\ running /\ now + min_request_interval <= MaxTime) =>
                ENABLED SchedulerWakes
          /\ (pc \in ScrapeWaits /\ pc' # pc) =>
                \/ running /\ running' /\ pc' = "check_robots"
                \/ ~running' /\ pc' = "cancelled" /\ prediction_pc' = "cancelled"
          /\ running' # running =>
                (pc' = "cancelled" /\ prediction_pc' = "cancelled")
          /\ running' => pc' \notin {"cancelled", "crashed"}
          /\ attempt'.outcome \in {"predicted", "prediction_raised"} =>
                (running /\ prediction_pc = "ready" /\ prediction_pc' \in PredictionWaits)
          /\ ~running => UNCHANGED vars ]_vars

\* After a scrape cycle of the scheduler that raised, the one-hour wait is
\* over and the scheduler stands at the start of the next cycle; the
\* prediction task has had a round in between and is in a wait of its own.
C31_Witness ==
    /\ driver = "scheduler"
    /\ running
    /\ pc = "check_robots"
    /\ attempt.outcome = "sleep_1h"
    /\ prediction_pc \in PredictionWaits

TypeOK ==
    /\ pc \in {"check_robots", "fetch_schedule", "games", "export", "returned",
                "raised", "crashed", "sleep_24h", "sleep_1h", "cancelled"}
    /\ now \in 0..MaxTime
    /\ last_request_timestamp \in 0..MaxTime
    /\ unresolved \subseteq GameIds
    /\ prediction_pc \in {"none", "ready", "cancelled"} \cup PredictionWaits

====
